---- MODULE Spec2Model ----
(***************************************************************************)
(* InfiniteScroll: a React component that keeps a window of at most        *)
(* 2 * size items over a paginated source and loads pages as the viewport  *)
(* reaches the lower or the upper target.                                  *)
(*                                                                         *)
(* One action is one browser task: an IntersectionObserver callback, a     *)
(* change of the fetchData prop, or the continuation of an awaited         *)
(* fetchData call.  The state updates of a task are batched into one       *)
(* commit (React 18), and the effects that the commit triggers, with the   *)
(* re-render their setLoading(true) causes, are part of the same action.   *)
(*                                                                         *)
(* `data` holds the value of `data || []`: an undefined window renders     *)
(* nothing and spreads to nothing, exactly as an empty one.                *)
(***************************************************************************)
EXTENDS Integers, Sequences, FiniteSets, Bags, TLC

\* ---------------------------------------------------------------- bounds
Size == 2                 \* the size prop (page size)
MaxEvents == 4            \* boundary crossings, prop changes and failed
                          \* fetches in one run (twice as many crossings
                          \* in a run that stays orderly)
ItemHeight == 3           \* rendered height of one item
LoaderHeight == 1         \* rendered height of the loader component

\* ------------------------------------------------------- program constants
numberOfPagesRendered == 2
maxNumberOfElements == Size * numberOfPagesRendered

VARIABLES
  fetchData,          \* identity of the current fetchData prop
  loaderComponent,    \* TRUE iff the loaderComponent prop is given
  prevOffset, nextOffset,
  fetchDataForward, fetchDataBackward,
  dataFinished,
  data,               \* sequence of items <<source, index>>
  loading,
  lowerTarget,        \* TRUE iff an observer watches the mounted lower target
  upperTarget,        \* TRUE iff an observer watches the mounted upper target
  inflight,           \* awaited fetchData calls, with what their closures hold
  last,               \* the task that ran last: the call it resumed, what
                      \* the call yielded, the kinds of call it issued
  paddingTop,         \* containerRef.current.style.paddingTop
  scrollTop,          \* containerRef.current.scrollTop, counted in
                      \* 1/maxNumberOfElements of a pixel
  exhausted,          \* TRUE iff a forward fetch of the current fetchData
                      \* has returned fewer than size items
  run,                \* "forward": one source, no failed fetch, every
                      \* crossing a forward one made with no call in flight;
                      \* "orderly": the same with backward crossings;
                      \* "free": any other run
  events              \* counter that bounds a run

vars == <<fetchData, loaderComponent, prevOffset, nextOffset, fetchDataForward,
          fetchDataBackward, dataFinished, data, loading, lowerTarget,
          upperTarget, inflight, last, paddingTop, scrollTop, exhausted,
          run, events>>

\* the fetchData identities the parent can pass
Sources == {1, 2}

\* ------------------------------------------------------ the paginated source
\* Source s holds the items <<s, 0>> .. <<s, Total(s) - 1>>: the first source
\* is shorter than a page, the second ends inside its fourth page.
Total(s) == IF s = 1 THEN Size - 1 ELSE 3 * Size + 1

Min(a, b) == IF a < b THEN a ELSE b
Max(a, b) == IF a > b THEN a ELSE b

\* skip/limit semantics of fetchData(size, offset) on source s; a negative
\* offset is outside the contract of the source and is served as offset 0
Page(s, size, offset) ==
  LET skip == Max(0, offset)
      n == Max(0, Min(size, Total(s) - skip))
  IN  [i \in 1..n |-> <<s, skip + i - 1>>]

\* What an awaited fetchData(size, offset) can yield: a page, undefined, or a
\* rejection.
Outcomes(s, size, offset) ==
  { [st |-> "ok", items |-> Page(s, size, offset)],
    [st |-> "undefined", items |-> <<>>],
    [st |-> "reject", items |-> <<>>] }

\* ------------------------------------------------------------- rendering
forwardThreshold(d) ==
  LET len == IF Len(d) = 0 THEN Size ELSE Len(d)
  IN  len - ((Size + 4) \div 5)          \* floor(len - 0.2 * size)
backwardThreshold == Size \div 5         \* floor(0.2 * size)

\* the early return of the component: only the loader is rendered
OnlyLoader(ld, fw, bw) == ~fw /\ ~bw /\ ld

\* first branch of the map: the loader wrapped around element 0
LoaderAtHead(idx, ld, bw) == idx = 0 /\ loaderComponent /\ ld /\ bw

UpperMounted(d, ld, fw, bw, po) ==
  /\ ~OnlyLoader(ld, fw, bw)
  /\ \E idx \in 0..(Len(d) - 1) :
        /\ ~LoaderAtHead(idx, ld, bw)
        /\ po > 0 /\ idx = backwardThreshold

LowerMounted(d, ld, fw, bw, df, po) ==
  /\ ~OnlyLoader(ld, fw, bw)
  /\ \E idx \in 0..(Len(d) - 1) :
        /\ ~LoaderAtHead(idx, ld, bw)
        /\ ~(po > 0 /\ idx = backwardThreshold)
        /\ idx = forwardThreshold(d) /\ ~df

\* ------------------------------------------------------- state updaters
\* a forward crossing that skips a page
ForwardAdvanceTwoPages(prev) == prev + maxNumberOfElements

\* setNextOffset((prev) => prev + size)
ForwardAdvance(prev) == prev + Size

\* the updater of setPrevOffset in the upper observer; len is data.length
BackwardOffset(prev, len) ==
  LET modulo == len % Size
      newOffset == IF modulo = 0 THEN prev - Size
                   ELSE prev - (len - modulo * Size)
  IN  Max(0, newOffset)

\* a forward trim that drops the new items instead of the oldest
SliceTailKeepsHead(d) ==
  IF Len(d) > maxNumberOfElements THEN SubSeq(d, 1, maxNumberOfElements) ELSE d

\* data.slice(-maxNumberOfElements)
SliceTail(d) ==
  IF Len(d) > maxNumberOfElements
    THEN SubSeq(d, Len(d) - maxNumberOfElements + 1, Len(d)) ELSE d
\* data.slice(0, maxNumberOfElements)
SliceHead(d) ==
  IF Len(d) > maxNumberOfElements THEN SubSeq(d, 1, maxNumberOfElements) ELSE d

\* a compensation by a whole page whatever was trimmed
ExcessOfPage(d) == Size

\* data.length - maxNumberOfElements
Excess(d) == Len(d) - maxNumberOfElements

\* a forward merge that never trims
ForwardUnlimited(newData) == newData

\* limitedData of the forward fetch
ForwardLimited(newData) ==
  IF Len(newData) > maxNumberOfElements THEN SliceTail(newData) ELSE newData
\* limitedData of the backward fetch
BackwardLimited(newData) ==
  IF Len(newData) > maxNumberOfElements THEN SliceHead(newData) ELSE newData

\* ----------------------------------------------------------------- commit
\* A fetchData call awaited by an effect: the values its closure captured
\* (fsrc, off, cdata) and the offsets before the task that issued it.
Call(kind, fsrc, off, cdata) ==
  [kind |-> kind, fsrc |-> fsrc, off |-> off, cdata |-> cdata,
   prePrev |-> prevOffset, preNext |-> nextOffset]

Without(calls, c) == calls (-) SetToBag({c})

\* One commit of the batched updates (d1, po1, ... are the new state values)
\* followed by the effects whose dependencies changed, in source order, and
\* by the re-render that their setLoading(true) causes.
Commit(fd1, d1, dataChanged, po1, no1, fw1, bw1, df1, ld1, rest, ev, c, r) ==
  LET issueInit == fd1 # fetchData
      issueFwd == no1 # nextOffset /\ fw1
      issueBwd == po1 # prevOffset /\ bw1
      calls == (IF issueInit THEN SetToBag({Call("init", fd1, 0, d1)})
                             ELSE EmptyBag)
               (+) (IF issueFwd THEN SetToBag({Call("forward", fd1, no1, d1)})
                                ELSE EmptyBag)
               (+) (IF issueBwd THEN SetToBag({Call("backward", fd1, po1, d1)})
                                ELSE EmptyBag)
      ld2 == ld1 \/ issueInit \/ issueFwd \/ issueBwd
      \* the observer effects run when data changed and observe what is mounted
      lower1 == LowerMounted(d1, ld1, fw1, bw1, df1, po1)
                   /\ (dataChanged \/ lowerTarget)
      upper1 == UpperMounted(d1, ld1, fw1, bw1, po1)
                   /\ (dataChanged \/ upperTarget)
  IN  /\ fetchData' = fd1
      /\ data' = d1
      /\ prevOffset' = po1
      /\ nextOffset' = no1
      /\ fetchDataForward' = fw1
      /\ fetchDataBackward' = bw1
      /\ dataFinished' = df1
      /\ loading' = ld2
      /\ lowerTarget' = (lower1 /\ LowerMounted(d1, ld2, fw1, bw1, df1, po1))
      /\ upperTarget' = (upper1 /\ UpperMounted(d1, ld2, fw1, bw1, po1))
      /\ inflight' = rest (+) calls
      /\ last' = [ev |-> ev, call |-> c, st |-> r.st, n |-> Len(r.items),
                  issued |-> {k.kind : k \in BagToSet(calls)}]
      /\ UNCHANGED loaderComponent

\* --------------------------------------------------------------- actions
NoCall == [kind |-> "none", fsrc |-> 0, off |-> 0, cdata |-> <<>>,
           prePrev |-> 0, preNext |-> 0]
NoResult == [st |-> "none", items |-> <<>>]

\* The component mounts: every effect runs once, the first one fetches page 0.
Init ==
  /\ fetchData \in Sources
  /\ loaderComponent \in BOOLEAN
  /\ prevOffset = 0 /\ nextOffset = 0
  /\ fetchDataForward = FALSE /\ fetchDataBackward = FALSE
  /\ dataFinished = FALSE
  /\ data = <<>>
  /\ loading = TRUE
  /\ lowerTarget = FALSE /\ upperTarget = FALSE
  /\ inflight = SetToBag({Call("init", fetchData, 0, <<>>)})
  /\ last = [ev |-> "mount", call |-> NoCall, st |-> "none", n |-> 0,
             issued |-> {"init"}]
  /\ paddingTop = "" /\ scrollTop = 0
  /\ exhausted = FALSE
  /\ run = "forward"
  /\ events = 0

\* A crossing made while no call is in flight keeps an orderly run orderly.
Orderly == run # "free" /\ inflight = EmptyBag
Budget == IF Orderly THEN 2 * MaxEvents ELSE MaxEvents

\* The parent passes another fetchData function.
SourceChange ==
  /\ events < MaxEvents
  /\ \E s \in Sources \ {fetchData} :
        Commit(s, data, FALSE, prevOffset, nextOffset, fetchDataForward,
               fetchDataBackward, dataFinished, loading, inflight,
               "change", NoCall, NoResult)
  /\ exhausted' = FALSE
  /\ run' = "free"
  /\ events' = events + 1
  /\ UNCHANGED <<paddingTop, scrollTop>>

\* The lower target becomes fully visible.
ForwardCross ==
  /\ lowerTarget
  /\ events < Budget
  /\ Commit(fetchData, data, FALSE, prevOffset, ForwardAdvance(nextOffset),
            TRUE, FALSE, dataFinished, loading, inflight,
            "forwardCross", NoCall, NoResult)
  /\ run' = (IF Orderly THEN run ELSE "free")
  /\ events' = events + 1
  /\ UNCHANGED <<paddingTop, scrollTop, exhausted>>

\* The upper target becomes fully visible.
BackwardCross ==
  /\ upperTarget
  /\ events < Budget
  /\ Commit(fetchData, data, FALSE, BackwardOffset(prevOffset, Len(data)),
            nextOffset, FALSE, TRUE, dataFinished, loading, inflight,
            "backwardCross", NoCall, NoResult)
  /\ run' = (IF Orderly THEN "orderly" ELSE "free")
  /\ events' = events + 1
  /\ UNCHANGED <<paddingTop, scrollTop, exhausted>>

\* A failed fetch counts as an event of the run.
Counted(r) ==
  IF r.st = "ok" THEN events' = events /\ run' = run
  ELSE events < MaxEvents /\ events' = events + 1 /\ run' = "free"

\* A rejected fetchData call: the async function stops at its await.
Rejected(c, r, ev) ==
  /\ inflight' = Without(inflight, c)
  /\ last' = [ev |-> ev, call |-> c, st |-> r.st, n |-> 0, issued |-> {}]
  /\ UNCHANGED <<fetchData, loaderComponent, prevOffset, nextOffset,
                 fetchDataForward, fetchDataBackward, dataFinished, data,
                 loading, lowerTarget, upperTarget, paddingTop, scrollTop>>

\* The fetch of the first effect resumes after its await.
InitDone ==
  \E c \in BagToSet(inflight) :
    /\ c.kind = "init"
    /\ \E r \in Outcomes(c.fsrc, Size, c.off) :
         /\ Counted(r)
         /\ IF r.st = "reject" THEN Rejected(c, r, "initDone")
            ELSE /\ Commit(fetchData, r.items, TRUE, 0, 0, fetchDataForward,
                           fetchDataBackward, FALSE, FALSE,
                           Without(inflight, c), "initDone", c, r)
                 /\ scrollTop' = 0
                 /\ UNCHANGED paddingTop
         /\ UNCHANGED exhausted

\* The fetch of the forward effect resumes after its await.
ForwardDone ==
  \E c \in BagToSet(inflight) :
    /\ c.kind = "forward"
    /\ \E r \in Outcomes(c.fsrc, Size, c.off) :
         /\ Counted(r)
         /\ IF r.st = "reject" THEN Rejected(c, r, "forwardDone")
            ELSE LET newData == c.cdata \o r.items
                     over == Len(newData) > maxNumberOfElements
                 IN  /\ UNCHANGED <<paddingTop, scrollTop>>
                     /\ Commit(fetchData, ForwardLimited(newData), TRUE,
                            IF over THEN prevOffset + Excess(newData)
                                    ELSE prevOffset,
                            nextOffset, FALSE, fetchDataBackward,
                            IF r.st = "ok" /\ Len(r.items) < Size
                              THEN TRUE ELSE dataFinished,
                            FALSE, Without(inflight, c),
                            "forwardDone", c, r)
         /\ exhausted' = (exhausted \/ (/\ c.fsrc = fetchData /\ r.st = "ok"
                                        /\ Len(r.items) < Size))

\* offsetHeight of the backward loader, 0 when it is not rendered
loaderComponentHeight ==
  IF /\ ~OnlyLoader(loading, fetchDataForward, fetchDataBackward)
     /\ Len(data) > 0 /\ LoaderAtHead(0, loading, fetchDataBackward)
    THEN LoaderHeight ELSE 0

\* containerRef.current.scrollHeight: the DOM still shows the window of the
\* last render, items of equal height below the backward loader
scrollHeight ==
  IF OnlyLoader(loading, fetchDataForward, fetchDataBackward)
    THEN (IF loaderComponent THEN LoaderHeight ELSE 0)
    ELSE Len(data) * ItemHeight + loaderComponentHeight

\* a compensation that forgets the height of the loader
ScrollDeltaNoLoader(height, loaderHeight, count, maxElements) ==
  count * (height - loaderHeight)

\* moreData.length * heightOfSingleElement - loaderComponentHeight, times
\* maxElements
ScrollDelta(height, loaderHeight, count, maxElements) ==
  count * (height - loaderHeight) - loaderHeight * maxElements

\* The fetch of the backward effect resumes after its await.  On undefined,
\* moreData!.length throws after setData: the scroll position, the padding
\* and setFetchDataBackward are not reached.
BackwardDone ==
  \E c \in BagToSet(inflight) :
    /\ c.kind = "backward"
    /\ \E r \in Outcomes(c.fsrc, Size, c.off) :
         /\ Counted(r)
         /\ IF r.st = "reject" THEN Rejected(c, r, "backwardDone")
            ELSE LET newData == r.items \o c.cdata
                     over == Len(newData) > maxNumberOfElements
                 IN  /\ IF r.st = "ok"
                          THEN /\ scrollTop' = scrollTop
                                    + ScrollDelta(scrollHeight,
                                        loaderComponentHeight, Len(r.items),
                                        maxNumberOfElements)
                               /\ paddingTop' = (IF c.off > 0 THEN "0px" ELSE "")
                          ELSE UNCHANGED <<paddingTop, scrollTop>>
                     /\ Commit(fetchData, BackwardLimited(newData), TRUE,
                            prevOffset,
                            IF over THEN nextOffset - Excess(newData)
                                    ELSE nextOffset,
                            fetchDataForward,
                            IF r.st = "ok" THEN FALSE ELSE fetchDataBackward,
                            dataFinished, FALSE, Without(inflight, c),
                            "backwardDone", c, r)
         /\ UNCHANGED exhausted

Next ==
  \/ SourceChange
  \/ ForwardCross
  \/ BackwardCross
  \/ InitDone
  \/ ForwardDone
  \/ BackwardDone

Spec == Init /\ [][Next]_vars

\* ------------------------------------------------------------------ claims
Done == {"initDone", "forwardDone", "backwardDone"}
Failed == {"undefined", "reject"}
InFlight(kind) == \E c \in BagToSet(inflight) : c.kind = kind

\* C1: the window never holds more than 2 * size items, in particular right
\* after an initial, forward or backward merge has been applied.
WindowBound == Len(data) <= 2 * Size

\* a backward merge has prepended a page to a full window and trimmed it
WindowBoundWitness ==
  /\ last.ev = "backwardDone" /\ last.st = "ok" /\ last.n > 0
  /\ Len(last.call.cdata) = 2 * Size
  /\ Len(data) = 2 * Size

\* C2: once a forward fetch has returned fewer than size items, no step
\* issues a forward fetchData call as long as fetchData stays the same.
ExhaustionStable ==
  [][(exhausted /\ fetchData' = fetchData) => "forward" \notin last'.issued]_vars

\* C3: a forward (backward) crossing while a forward (backward) fetch is in
\* flight changes no offset and issues no fetchData call.
SameDirectionNoOp ==
  [][(\/ last'.ev = "forwardCross" /\ InFlight("forward")
      \/ last'.ev = "backwardCross" /\ InFlight("backward"))
       => /\ prevOffset' = prevOffset /\ nextOffset' = nextOffset
          /\ last'.issued = {}]_vars

\* C4: the result of a forward or backward fetch issued against a fetchData
\* that is no longer current changes neither the window nor prevOffset,
\* nextOffset or dataFinished, and the window never mixes the items of two
\* sources.
SingleSource == \A i, j \in 1..Len(data) : data[i][1] = data[j][1]
StaleDiscarded ==
  /\ []SingleSource
  /\ [][(/\ last'.ev \in {"forwardDone", "backwardDone"}
         /\ last'.call.fsrc # fetchData)
          => UNCHANGED <<data, prevOffset, nextOffset, dataFinished>>]_vars

\* C5: after a failed forward or backward fetch the window and both offsets
\* have the values they had before the task that issued the fetch, and
\* dataFinished is not set by it.
FailureUnmutated ==
  [][(last'.ev \in {"forwardDone", "backwardDone"} /\ last'.st \in Failed)
       => /\ data' = last'.call.cdata
          /\ prevOffset' = last'.call.prePrev
          /\ nextOffset' = last'.call.preNext
          /\ (dataFinished' => dataFinished)]_vars

\* C6: a change of fetchData empties the window, zeroes both offsets, clears
\* dataFinished and issues exactly one call, the fetch of page 0.
ResetOnChange ==
  [][fetchData' # fetchData
       => /\ data' = <<>> /\ prevOffset' = 0 /\ nextOffset' = 0
          /\ ~dataFinished'
          /\ last'.issued = {"init"}]_vars

\* C7: when the initial fetch has returned fewer than size items, dataFinished
\* is true once the window is seeded.
ShortSeedFinishes ==
  (last.ev = "initDone" /\ last.st = "ok" /\ last.n < Size) => dataFinished

\* C8: only crossings cause forward and backward calls, one each: the
\* completion of a fetch issues no fetch in the opposite direction.
NoDoubleIssue ==
  /\ last.ev \in {"forwardCross", "backwardCross"} => Cardinality(last.issued) <= 1
  /\ last.ev = "forwardDone" => "backward" \notin last.issued
  /\ last.ev = "backwardDone" => "forward" \notin last.issued

\* C9: a backward crossing sets prevOffset to max(0, prevOffset - P) when
\* L mod P = 0 and to max(0, prevOffset - (L - L mod P)) otherwise.
AlignedOffset(prev, L, P) ==
  IF L % P = 0 THEN Max(0, prev - P) ELSE Max(0, prev - (L - (L % P)))
BackwardAlignment ==
  [][last'.ev = "backwardCross"
       => prevOffset' = AlignedOffset(prevOffset, Len(data), Size)]_vars

\* C10: a forward crossing adds exactly size to nextOffset and issues
\* fetchData(size, nextOffset) with the advanced value; the completion of a
\* forward fetch, trimming or not, leaves nextOffset alone.
ForwardMonotone ==
  [][/\ last'.ev = "forwardCross"
          => /\ nextOffset' = nextOffset + Size
             /\ \E c \in BagToSet(inflight') :
                   /\ c.kind = "forward" /\ c.off = nextOffset + Size
                   /\ inflight' = inflight (+) SetToBag({c})
     /\ last'.ev = "forwardDone" => nextOffset' = nextOffset]_vars

\* the second forward crossing has been served and its merge has trimmed
ForwardMonotoneWitness ==
  /\ last.ev = "forwardDone" /\ last.st = "ok"
  /\ last.call.off = 2 * Size /\ nextOffset = 2 * Size
  /\ prevOffset > last.call.prePrev

\* C11: in a pure forward run over a source of N items, once the initial
\* fetch and k forward crossings have been served, the window is the last
\* min(2P, m) items of the source prefix of length m = min(N, (k+1)P), and
\* dataFinished holds, with no lower target left to cross, exactly when one of
\* these fetches returned fewer than P items, that is when N < (k+1)P.
Served == IF last.ev = "mount" THEN 0 ELSE nextOffset \div Size + 1
PureForwardWindow ==
  (run = "forward" /\ inflight = EmptyBag /\ Served > 0) =>
    LET N == Total(fetchData)
        m == Min(N, Served * Size)
        w == Min(2 * Size, m)
    IN  /\ data = [i \in 1..w |-> <<fetchData, m - w + i - 1>>]
        /\ dataFinished = (N < Served * Size)
        /\ dataFinished => ~lowerTarget

\* C12: prevOffset and nextOffset are never negative.
OffsetsNonNegative == prevOffset >= 0 /\ nextOffset >= 0

\* C13: whenever no fetch is outstanding the window is the run of the current
\* source that starts at index prevOffset: data[i] = source[prevOffset + i].
\* Stated for the runs that use one source, see no failed fetch and make every
\* crossing with no call in flight; the claim covers them among all runs.
WindowContiguous ==
  (run # "free" /\ inflight = EmptyBag) =>
    \A i \in 1..Len(data) : data[i] = <<fetchData, prevOffset + i - 1>>

\* what a resumed call had fetched
Fetched == IF last.st = "ok" THEN Page(last.call.fsrc, Size, last.call.off)
           ELSE <<>>
Merged(ev) == last.ev = ev /\ last.st \in {"ok", "undefined"}

\* C14: a forward merge longer than 2 * size drops exactly its leading
\* excess = length - 2 * size items, keeps the trailing 2 * size in order and
\* adds excess to prevOffset; a shorter one drops nothing and leaves
\* prevOffset alone.
ForwardTrim ==
  [][Merged("forwardDone")' =>
       LET merged == last'.call.cdata \o Fetched'
           excess == Len(merged) - 2 * Size
       IN  IF excess > 0
             THEN /\ data' = [i \in 1..(2 * Size) |-> merged[excess + i]]
                  /\ prevOffset' = prevOffset + excess
             ELSE /\ data' = merged
                  /\ prevOffset' = prevOffset]_vars

\* a forward merge has trimmed a partial page
ForwardTrimWitness ==
  /\ Merged("forwardDone") /\ last.n > 0 /\ last.n < Size
  /\ Len(last.call.cdata) = 2 * Size
  /\ prevOffset = last.call.prePrev + last.n

\* C15: a backward merge longer than 2 * size drops exactly its trailing
\* excess items, keeps the leading 2 * size in order and subtracts excess from
\* nextOffset; no backward merge changes prevOffset or dataFinished.
BackwardTrim ==
  [][Merged("backwardDone")' =>
       LET merged == Fetched' \o last'.call.cdata
           excess == Len(merged) - 2 * Size
       IN  /\ IF excess > 0
                THEN /\ data' = [i \in 1..(2 * Size) |-> merged[i]]
                     /\ nextOffset' = nextOffset - excess
                ELSE /\ data' = merged
                     /\ nextOffset' = nextOffset
           /\ prevOffset' = prevOffset
           /\ dataFinished' = dataFinished]_vars

\* a backward merge has prepended a page to a full window
BackwardTrimWitness ==
  /\ Merged("backwardDone") /\ last.n = Size
  /\ Len(last.call.cdata) = 2 * Size
  /\ data[1] = <<last.call.fsrc, last.call.off>>

\* C16: with no fetch outstanding and dataFinished true, the last item of the
\* window is the last item of the source.  Stated for the runs that use one
\* source, see no failed fetch and make every crossing with no call in flight;
\* the claim covers them among all runs.
ExhaustedTailKept ==
  (run # "free" /\ inflight = EmptyBag /\ dataFinished /\ Len(data) > 0) =>
    data[Len(data)] = <<fetchData, Total(fetchData) - 1>>

\* C17: a forward or backward fetch that failed leaves the coordinator idle:
\* once the failed call has resumed and nothing else is outstanding, no step of
\* the component remains to be taken, so loading, fetchDataForward and
\* fetchDataBackward are false by then.
IdleAfterFailure ==
  (/\ last.ev \in {"forwardDone", "backwardDone"}
   /\ last.st \in Failed
   /\ inflight = EmptyBag) =>
    (~loading /\ ~fetchDataForward /\ ~fetchDataBackward)

\* C18: in the runs where no fetch fails and each fetch completes before the
\* next crossing, with nothing outstanding, dataFinished false and a non-empty
\* window, the next forward request starts one past the last item of the
\* window: nextOffset + size = prevOffset + window length.
ForwardCursor ==
  (run # "free" /\ inflight = EmptyBag /\ ~dataFinished /\ Len(data) > 0) =>
    nextOffset + Size = prevOffset + Len(data)

\* C19: with no fetch outstanding, the top padding of the container is
\* suppressed ('0px') exactly when prevOffset > 0.
PaddingTracksPrevOffset ==
  inflight = EmptyBag => ((paddingTop = "0px") <=> (prevOffset > 0))

====
